---- MODULE Spec2Model ----
(***************************************************************************)
(* Model of src/app.py: the X-ray angle measurement wizard.                *)
(*                                                                         *)
(* main() is a Streamlit script: every user event (a checkbox toggle, a    *)
(* button press) runs the whole script once against st.session_state; a    *)
(* handler that changes the state ends with st.experimental_rerun(), which *)
(* runs the script again from the top.  One action of this model is one    *)
(* user event together with the pass (and the rerun) it causes.            *)
(*                                                                         *)
(* A coordinate is a pair of rationals kept as <<nx, ny, d>> (the point    *)
(* (nx/d, ny/d), d > 0, lowest terms): the number_input fields yield       *)
(* integers (d = 1), np.linalg.lstsq yields floats.                        *)
(***************************************************************************)
EXTENDS Integers, Sequences, FiniteSets, TLC

\* ------------------------------------------------------------------------
\* Bounds of the exploration
\* ------------------------------------------------------------------------
MaxHipPoints == 3      \* longest hip_points list explored
MaxSide == 4           \* largest image side explored for the transforms
MaxStep == 2           \* largest component of a direction vector explored
MaxFitPoints == 4      \* longest list of points fitted on its own
MaxEdits == 1          \* most edits of a coordinate field in one session

\* The uploaded image explored by the wizard specification: <<columns, rows>>
\* of the decoded array before any flip or rotation.
ImageSize == <<3, 3>>

\* ------------------------------------------------------------------------
\* Session state
\* ------------------------------------------------------------------------
VARIABLES
    points,           \* st.session_state.points: name -> coordinate or None
    current_point,    \* st.session_state.current_point
    hip_points,       \* st.session_state.hip_points (<<>> when the key is absent)
    flip_horizontal,  \* checkbox "Flip Horizontal (Mirror)"
    flip_vertical,    \* checkbox "Flip Vertical (Upside Down)"
    rotate_90,        \* checkbox "Rotate 90"
    outcome,          \* how far the last pass of the script got
    angles,           \* the four angles the last pass displayed, or None
    event,            \* the user event that caused the last pass
    field_x,          \* value of the number_input "<current_name>_x"
    field_y,          \* value of the number_input "<current_name>_y"
    edits,            \* how often the coordinate fields have been edited
    call              \* a call of one of the pure computations (other specifications)

vars == <<points, current_point, hip_points, flip_horizontal, flip_vertical,
          rotate_90, outcome, angles, event, field_x, field_y, edits, call>>

None == <<>>

\* value of call while no pure computation is being exercised
NoCall == [ fn |-> "none" ]

\* list(st.session_state.points.keys()): dicts keep insertion order
point_names == << "hip_center", "femoral_condyles_center", "medial_condyle",
                  "lateral_condyle", "medial_tibial_plateau",
                  "lateral_tibial_plateau", "tibia_center", "ankle_center" >>

PointNameSet == { point_names[i] : i \in 1..Len(point_names) }

\* the dict literal of lines 48-57
EmptyPoints == [ n \in PointNameSet |-> None ]

Coord(x, y) == <<x, y, 1>>

\* ------------------------------------------------------------------------
\* Orientation: lines 38-45 and the two coordinate transforms
\* ------------------------------------------------------------------------
\* height, width = img_array.shape[0], img_array.shape[1] after the flips and
\* np.rot90: a rotation swaps rows and columns.  Result is <<width, height>>.
DisplaySize(size, rot) ==
    IF rot THEN <<size[2], size[1]>> ELSE <<size[1], size[2]>>

\* lines 72-78: canonical (stored) point -> the point that is plotted
ForwardTransform(p, width, height, fh, fv, rot) ==
    LET d  == p[3]
        x1 == IF fh THEN width * d - p[1] - d ELSE p[1]
        y1 == IF fv THEN height * d - p[2] - d ELSE p[2]
    IN  IF rot THEN <<y1, width * d - x1 - d, d>> ELSE <<x1, y1, d>>

\* lines 97-102 (Save) and 114-120 (Add Hip Point): entered point -> stored
InverseTransform(x, y, width, height, fh, fv, rot) ==
    LET x1 == IF fh THEN width - x - 1 ELSE x
        y1 == IF fv THEN height - y - 1 ELSE y
    IN  IF rot THEN Coord(height - y1 - 1, x1) ELSE Coord(x1, y1)

Width  == DisplaySize(ImageSize, rotate_90)[1]
Height == DisplaySize(ImageSize, rotate_90)[2]

\* ------------------------------------------------------------------------
\* The coordinate fields (lines 88-93): two number_input widgets keyed by the
\* current landmark, integers in 0..width and 0..height.  A widget with a new
\* key starts at value=width//2 (height//2); while its key stays the same it
\* keeps what the user entered.
\* ------------------------------------------------------------------------
DefaultInput(width, height) == <<width \div 2, height \div 2>>

\* ------------------------------------------------------------------------
\* Integer helpers
\* ------------------------------------------------------------------------
Abs(n) == IF n < 0 THEN -n ELSE n

Min(a, b) == IF a <= b THEN a ELSE b

RECURSIVE Gcd(_, _)
Gcd(a, b) == IF b = 0 THEN Abs(a) ELSE Gcd(b, Abs(a) % Abs(b))

RECURSIVE SumSeq(_)
SumSeq(s) == IF s = <<>> THEN 0 ELSE Head(s) + SumSeq(Tail(s))

\* the point (nx/d, ny/d) in lowest terms with a positive denominator
Rational(nx, ny, d) ==
    LET s == IF d < 0 THEN -1 ELSE 1
        g == Gcd(Gcd(nx, ny), d)
    IN  <<(s * nx) \div g, (s * ny) \div g, (s * d) \div g>>

Det2(a, b, c, d) == a * d - b * c

\* determinant of the matrix with rows r1, r2, r3
Det3(r1, r2, r3) ==
      r1[1] * Det2(r2[2], r2[3], r3[2], r3[3])
    - r1[2] * Det2(r2[1], r2[3], r3[1], r3[3])
    + r1[3] * Det2(r2[1], r2[2], r3[1], r3[2])

Dot3(u, w) == u[1] * w[1] + u[2] * w[2] + u[3] * w[3]

\* ------------------------------------------------------------------------
\* Circle fit: lines 126-129
\* ------------------------------------------------------------------------
\* the design matrix without the factor 2: rows [x, y, 1]
DesignMatrix_NoDouble(pts) == [ i \in 1..Len(pts) |-> <<pts[i][1], pts[i][2], 1>> ]

\* A = np.column_stack([2*points, np.ones(len(points))]): rows [2x, 2y, 1]
DesignMatrix(pts) == [ i \in 1..Len(pts) |-> <<2 * pts[i][1], 2 * pts[i][2], 1>> ]

\* b = points[:, 0]**2 + points[:, 1]**2
RightHandSide(pts) ==
    [ i \in 1..Len(pts) |-> pts[i][1] * pts[i][1] + pts[i][2] * pts[i][2] ]

Collinear(pts) ==
    \A i, j \in 1..Len(pts) :
        Det2(pts[i][1] - pts[1][1], pts[i][2] - pts[1][2],
             pts[j][1] - pts[1][1], pts[j][2] - pts[1][2]) = 0

AllSame(pts) == \A i \in 1..Len(pts) : pts[i] = pts[1]

\* rank of the design matrix: 3 unless the points are collinear
Rank(pts) == IF AllSame(pts) THEN 1 ELSE IF Collinear(pts) THEN 2 ELSE 3

\* Full rank: the unique least-squares solution, from the normal equations
\* (A^T A) c = A^T b by Cramer's rule; only c[0], c[1] are kept.
LstsqFullRank(pts) ==
    LET A   == DesignMatrix(pts)
        b   == RightHandSide(pts)
        n   == Len(pts)
        M(i, j) == SumSeq([ k \in 1..n |-> A[k][i] * A[k][j] ])
        r(i)    == SumSeq([ k \in 1..n |-> A[k][i] * b[k] ])
        row(i)  == <<M(i, 1), M(i, 2), M(i, 3)>>
        rowX(i) == <<r(i), M(i, 2), M(i, 3)>>
        rowY(i) == <<M(i, 1), r(i), M(i, 3)>>
        det     == Det3(row(1), row(2), row(3))
    IN  Rational(Det3(rowX(1), rowX(2), rowX(3)),
                 Det3(rowY(1), rowY(2), rowY(3)), det)

\* Rank 2 (collinear, not all equal): lstsq returns the least-squares solution
\* of minimum norm, which is the one in the row space of A.  The row space is
\* spanned by u (the first row) and w (the direction of the line); the
\* solution is alpha*u + beta*w with (alpha, beta) from the 2x2 normal
\* equations of the columns A.u and A.w.
LstsqRankTwo(pts) ==
    LET A   == DesignMatrix(pts)
        b   == RightHandSide(pts)
        n   == Len(pts)
        j   == CHOOSE k \in 1..n :
                   /\ pts[k] # pts[1]
                   /\ \A m \in 1..(k - 1) : pts[m] = pts[1]
        u   == A[1]
        w   == <<pts[j][1] - pts[1][1], pts[j][2] - pts[1][2], 0>>
        g1  == [ k \in 1..n |-> Dot3(A[k], u) ]
        g2  == [ k \in 1..n |-> Dot3(A[k], w) ]
        n11 == SumSeq([ k \in 1..n |-> g1[k] * g1[k] ])
        n12 == SumSeq([ k \in 1..n |-> g1[k] * g2[k] ])
        n22 == SumSeq([ k \in 1..n |-> g2[k] * g2[k] ])
        r1  == SumSeq([ k \in 1..n |-> g1[k] * b[k] ])
        r2  == SumSeq([ k \in 1..n |-> g2[k] * b[k] ])
        det == Det2(n11, n12, n12, n22)
        alpha == Det2(r1, n12, r2, n22)
        beta  == Det2(n11, r1, n12, r2)
    IN  Rational(alpha * u[1] + beta * w[1], alpha * u[2] + beta * w[2], det)

\* Rank 1 (all points equal): every row is u and every right-hand side is
\* beta, so the minimum-norm solution is u * beta / (u.u).
LstsqRankOne(pts) ==
    LET u    == DesignMatrix(pts)[1]
        beta == RightHandSide(pts)[1]
    IN  Rational(u[1] * beta, u[2] * beta, Dot3(u, u))

\* center_x, center_y, _ = np.linalg.lstsq(A, b, rcond=None)[0]
\* lstsq raises nothing on a rank-deficient system: it returns the
\* minimum-norm least-squares solution.
CircleFit(pts) ==
    CASE Rank(pts) = 3 -> LstsqFullRank(pts)
      [] Rank(pts) = 2 -> LstsqRankTwo(pts)
      [] OTHER         -> LstsqRankOne(pts)

\* ------------------------------------------------------------------------
\* angle_between_lines: lines 8-16.  Angles are in millionths of a degree.
\* ------------------------------------------------------------------------
Deg == 1000000

\* np.degrees(np.arctan(q/p)) for coprime p > q > 0, rounded to the unit
ArctanTable ==
    ( <<2, 1>> :> 26565051 ) @@ ( <<3, 1>> :> 18434949 ) @@
    ( <<3, 2>> :> 33690068 ) @@ ( <<4, 1>> :> 14036243 ) @@
    ( <<4, 3>> :> 36869898 ) @@ ( <<5, 1>> :> 11309932 ) @@
    ( <<5, 2>> :> 21801409 ) @@ ( <<5, 3>> :> 30963757 ) @@
    ( <<5, 4>> :> 38659808 )

\* the angle of (p, q), p >= q >= 0, p > 0: within the first octant
Octant(p, q) ==
    LET g == Gcd(p, q)
    IN  IF q = 0 THEN 0
        ELSE IF p = q THEN 45 * Deg
        ELSE ArctanTable[<<p \div g, q \div g>>]

\* np.degrees(np.arctan2(y, x)), in (-180, 180] degrees; arctan2(0, 0) = 0
Arctan2(y, x) ==
    LET ax == Abs(x)
        ay == Abs(y)
        q  == IF ay <= ax THEN Octant(ax, ay) ELSE 90 * Deg - Octant(ay, ax)
    IN  IF x = 0 /\ y = 0 THEN 0
        ELSE IF x >= 0 /\ y >= 0 THEN q
        ELSE IF x < 0 /\ y >= 0 THEN 180 * Deg - q
        ELSE IF x < 0 THEN q - 180 * Deg
        ELSE -q

\* a2 - a1 of two coordinates, scaled by the (positive) product of their
\* denominators: the direction, which is all arctan2 uses
Minus(a2, a1) ==
    <<a2[1] * a1[3] - a1[1] * a2[3], a2[2] * a1[3] - a1[2] * a2[3]>>

\* angle_rad / angle_deg before np.abs: lines 9-12
RawAngle(a1, a2, b1, b2) ==
    LET v1 == Minus(a2, a1)
        v2 == Minus(b2, b1)
    IN  Arctan2(v2[2], v2[1]) - Arctan2(v1[2], v1[1])

\* angle_between_lines without the fold of lines 14-15
angle_between_lines_NoFold(a1, a2, b1, b2) == Abs(RawAngle(a1, a2, b1, b2))

angle_between_lines(a1, a2, b1, b2) ==
    LET angle_deg == Abs(RawAngle(a1, a2, b1, b2))
    IN  IF angle_deg > 180 * Deg THEN 360 * Deg - angle_deg ELSE angle_deg

\* the measurement with the tibial axis of HKA taken from the knee to the ankle
Measure_TibiaDownwards(pts) ==
    LET hc  == pts["hip_center"]
        fc  == pts["femoral_condyles_center"]
        mc  == pts["medial_condyle"]
        lc  == pts["lateral_condyle"]
        mtp == pts["medial_tibial_plateau"]
        ltp == pts["lateral_tibial_plateau"]
        tc  == pts["tibia_center"]
        ac  == pts["ankle_center"]
    IN  [ hka  |-> angle_between_lines(hc, fc, fc, ac),
          jlca |-> angle_between_lines(mc, lc, mtp, ltp),
          ldfa |-> angle_between_lines(hc, fc, mc, lc),
          mpta |-> angle_between_lines(ac, tc, mtp, ltp) ]

\* lines 136-149
Measure(pts) ==
    LET hc  == pts["hip_center"]
        fc  == pts["femoral_condyles_center"]
        mc  == pts["medial_condyle"]
        lc  == pts["lateral_condyle"]
        mtp == pts["medial_tibial_plateau"]
        ltp == pts["lateral_tibial_plateau"]
        tc  == pts["tibia_center"]
        ac  == pts["ankle_center"]
    IN  [ hka  |-> angle_between_lines(hc, fc, ac, fc),
          jlca |-> angle_between_lines(mc, lc, mtp, ltp),
          ldfa |-> angle_between_lines(hc, fc, mc, lc),
          mpta |-> angle_between_lines(ac, tc, mtp, ltp) ]

\* ------------------------------------------------------------------------
\* One pass of the script over the session state
\* ------------------------------------------------------------------------
AllMarked(pts) == \A n \in PointNameSet : pts[n] # None

\* a pass without the test of line 135: np.array(None) entries make the
\* subtraction of line 9 raise TypeError for a landmark that is still missing
Pass_NoPrecondition(pts, cp) ==
    IF cp >= Len(point_names)
    THEN [ outcome |-> "IndexError", angles |-> None ]
    ELSE IF AllMarked(pts)
    THEN [ outcome |-> "result", angles |-> Measure(pts) ]
    ELSE [ outcome |-> "TypeError", angles |-> None ]

\* Line 62 indexes point_names with current_point and raises IndexError once
\* current_point has reached len(point_names): the pass ends there, after the
\* checkboxes and before the form.  Otherwise the form (lines 85-95) is
\* rendered and, when every landmark is marked (line 135), the four angles
\* and the "Start New Measurement" button.
Pass(pts, cp) ==
    IF cp >= Len(point_names)
    THEN [ outcome |-> "IndexError", angles |-> None ]
    ELSE IF AllMarked(pts)
    THEN [ outcome |-> "result", angles |-> Measure(pts) ]
    ELSE [ outcome |-> "form", angles |-> None ]

\* current_name = point_names[st.session_state.current_point] of the pass
\* that rendered the form
current_name == point_names[current_point + 1]

FormRendered == outcome \in {"form", "result"}

\* the rerun that ends a handler
Rerun ==
    /\ outcome' = Pass(points', current_point').outcome
    /\ angles' = Pass(points', current_point').angles

\* ------------------------------------------------------------------------
\* User events
\* ------------------------------------------------------------------------
\* lines 47-59: first pass after the upload, no checkbox ticked yet
Init ==
    /\ points = EmptyPoints
    /\ current_point = 0
    /\ hip_points = <<>>
    /\ flip_horizontal = FALSE
    /\ flip_vertical = FALSE
    /\ rotate_90 = FALSE
    /\ outcome = "form"
    /\ angles = None
    /\ event = "upload"
    /\ field_x = DefaultInput(ImageSize[1], ImageSize[2])[1]
    /\ field_y = DefaultInput(ImageSize[1], ImageSize[2])[2]
    /\ edits = 0
    /\ call = NoCall

\* x, y of lines 88-93 in the pass of a button press, turned into the
\* coordinates that are stored (lines 97-102, 114-120)
Entered ==
    InverseTransform(field_x, field_y, Width, Height,
                     flip_horizontal, flip_vertical, rotate_90)

\* the fields of the next landmark are new widgets (keys f"{current_name}_x",
\* f"{current_name}_y") and show their initial values
FreshFields ==
    /\ field_x' = DefaultInput(Width, Height)[1]
    /\ field_y' = DefaultInput(Width, Height)[2]

\* the user changes the X field: any integer the widget accepts (line 88-90)
EditX(v) ==
    /\ FormRendered
    /\ edits < MaxEdits
    /\ v \in 0..Width
    /\ v # field_x
    /\ field_x' = v
    /\ edits' = edits + 1
    /\ event' = "EditX"
    /\ UNCHANGED <<points, current_point, hip_points, flip_horizontal,
                   flip_vertical, rotate_90, field_y, call>>
    /\ Rerun

\* the user changes the Y field: any integer the widget accepts (line 91-93)
EditY(v) ==
    /\ FormRendered
    /\ edits < MaxEdits
    /\ v \in 0..Height
    /\ v # field_y
    /\ field_y' = v
    /\ edits' = edits + 1
    /\ event' = "EditY"
    /\ UNCHANGED <<points, current_point, hip_points, flip_horizontal,
                   flip_vertical, rotate_90, field_x, call>>
    /\ Rerun

\* Save that indexes point_names one place too low after the first landmark
Save_PreviousName ==
    /\ FormRendered
    /\ points' = [points EXCEPT
                     ![point_names[IF current_point = 0 THEN 1 ELSE current_point]] =
                         Entered]
    /\ current_point' = current_point + 1
    /\ event' = "Save"
    /\ FreshFields
    /\ UNCHANGED <<hip_points, flip_horizontal, flip_vertical, rotate_90, edits, call>>
    /\ Rerun

\* Save without the increment of line 104
Save_NoAdvance ==
    /\ FormRendered
    /\ points' = [points EXCEPT ![current_name] = Entered]
    /\ event' = "Save"
    /\ UNCHANGED <<current_point, hip_points, flip_horizontal, flip_vertical,
                   rotate_90, field_x, field_y, edits, call>>
    /\ Rerun

\* lines 95-105: button "Save <current landmark>"
Save ==
    /\ FormRendered
    /\ points' = [points EXCEPT ![current_name] = Entered]
    /\ current_point' = current_point + 1
    /\ event' = "Save"
    /\ FreshFields
    /\ UNCHANGED <<hip_points, flip_horizontal, flip_vertical, rotate_90, edits, call>>
    /\ Rerun

\* Add Hip Point offered for every landmark (without the test of line 108)
AddHipPoint_AnyLandmark ==
    /\ FormRendered
    /\ Len(hip_points) < MaxHipPoints
    /\ hip_points' = Append(hip_points, Entered)
    /\ event' = "AddHipPoint"
    /\ UNCHANGED <<points, current_point, flip_horizontal, flip_vertical,
                   rotate_90, field_x, field_y, edits, call>>
    /\ Rerun

\* lines 108-122: button "Add Hip Point"; the fields keep their values
AddHipPoint ==
    /\ FormRendered
    /\ current_name = "hip_center"
    /\ Len(hip_points) < MaxHipPoints
    /\ hip_points' = Append(hip_points, Entered)
    /\ event' = "AddHipPoint"
    /\ UNCHANGED <<points, current_point, flip_horizontal, flip_vertical,
                   rotate_90, field_x, field_y, edits, call>>
    /\ Rerun

\* Calculate Hip Center offered from 2 boundary points on
CalculateHipCenter_TwoPoints ==
    /\ FormRendered
    /\ current_name = "hip_center"
    /\ Len(hip_points) >= 2
    /\ points' = [points EXCEPT !["hip_center"] = CircleFit(hip_points)]
    /\ current_point' = current_point + 1
    /\ event' = "CalculateHipCenter"
    /\ FreshFields
    /\ UNCHANGED <<hip_points, flip_horizontal, flip_vertical, rotate_90, edits, call>>
    /\ Rerun

\* Calculate Hip Center that drops the boundary points once they are fitted
CalculateHipCenter_Discarding ==
    /\ FormRendered
    /\ current_name = "hip_center"
    /\ Len(hip_points) >= 3
    /\ points' = [points EXCEPT !["hip_center"] = CircleFit(hip_points)]
    /\ current_point' = current_point + 1
    /\ hip_points' = <<>>
    /\ event' = "CalculateHipCenter"
    /\ FreshFields
    /\ UNCHANGED <<flip_horizontal, flip_vertical, rotate_90, edits, call>>
    /\ Rerun

\* lines 124-132: button "Calculate Hip Center"
CalculateHipCenter ==
    /\ FormRendered
    /\ current_name = "hip_center"
    /\ Len(hip_points) >= 3
    /\ points' = [points EXCEPT !["hip_center"] = CircleFit(hip_points)]
    /\ current_point' = current_point + 1
    /\ event' = "CalculateHipCenter"
    /\ FreshFields
    /\ UNCHANGED <<hip_points, flip_horizontal, flip_vertical, rotate_90, edits, call>>
    /\ Rerun

\* a mirror toggle that also mirrors the stored landmarks
ToggleFlipHorizontal_Remapping ==
    /\ flip_horizontal' = ~flip_horizontal
    /\ points' = [ n \in PointNameSet |->
                     IF points[n] = None THEN None
                     ELSE ForwardTransform(points[n], Width, Height,
                                           TRUE, FALSE, FALSE) ]
    /\ event' = "Toggle"
    /\ UNCHANGED <<current_point, hip_points, flip_vertical, rotate_90,
                   field_x, field_y, edits, call>>
    /\ Rerun

\* lines 29-35: the checkboxes are rendered before line 62, so they can be
\* toggled in every pass; a toggle reruns the script with the session state
\* and the coordinate fields as they are
ToggleFlipHorizontal ==
    /\ flip_horizontal' = ~flip_horizontal
    /\ event' = "Toggle"
    /\ UNCHANGED <<points, current_point, hip_points, flip_vertical, rotate_90,
                   field_x, field_y, edits, call>>
    /\ Rerun

ToggleFlipVertical ==
    /\ flip_vertical' = ~flip_vertical
    /\ event' = "Toggle"
    /\ UNCHANGED <<points, current_point, hip_points, flip_horizontal, rotate_90,
                   field_x, field_y, edits, call>>
    /\ Rerun

\* the image explored is square, so width and height, and with them the
\* range of the fields, stay the same
ToggleRotate90 ==
    /\ rotate_90' = ~rotate_90
    /\ event' = "Toggle"
    /\ UNCHANGED <<points, current_point, hip_points, flip_horizontal,
                   flip_vertical, field_x, field_y, edits, call>>
    /\ Rerun

\* lines 176-178: button "Start New Measurement", rendered only by a pass that
\* reached line 176.  st.session_state.clear() removes points, current_point,
\* hip_points and the values of the keyed fields; the rerun initialises them
\* again (lines 47-59).  The unkeyed checkboxes keep their values.
StartNewMeasurement ==
    /\ outcome = "result"
    /\ points' = EmptyPoints
    /\ current_point' = 0
    /\ hip_points' = <<>>
    /\ event' = "StartNewMeasurement"
    /\ FreshFields
    /\ UNCHANGED <<flip_horizontal, flip_vertical, rotate_90, edits, call>>
    /\ Rerun

\* No pass with every landmark marked gets past line 62 (see Pass), so the
\* button of StartNewMeasurement is never rendered and the event cannot occur.
Next ==
    \/ \E v \in 0..Width : EditX(v)
    \/ \E v \in 0..Height : EditY(v)
    \/ Save
    \/ AddHipPoint
    \/ CalculateHipCenter
    \/ ToggleFlipHorizontal
    \/ ToggleFlipVertical
    \/ ToggleRotate90

Spec == Init /\ [][Next]_vars

\* ------------------------------------------------------------------------
\* The pure computations on their own: the two transforms, the angle of two
\* lines and the measurement, applied to inputs drawn from bounded sets.
\* ------------------------------------------------------------------------
session == <<points, current_point, hip_points, flip_horizontal, flip_vertical,
             rotate_90, outcome, angles, event, field_x, field_y, edits>>

Sides == 1..MaxSide

\* an image size, a ticking of the three checkboxes and a point
TransformInputs ==
    { [ fn |-> "transform", size |-> <<w, h>>, fh |-> fh, fv |-> fv,
        rot |-> rot, p |-> <<x, y>> ] :
        w \in Sides, h \in Sides, fh \in BOOLEAN, fv \in BOOLEAN,
        rot \in BOOLEAN, x \in 0..MaxSide, y \in 0..MaxSide }

Steps == (-MaxStep)..MaxStep

\* start points: an integer one and one with halves, as lstsq can produce
StartPoints == { <<0, 0, 1>>, <<1, 3, 2>> }

Shift(a, dx, dy) == <<a[1] + dx * a[3], a[2] + dy * a[3], a[3]>>

AngleInputs ==
    { [ fn |-> "angle", a1 |-> a1, a2 |-> Shift(a1, v[1], v[2]),
        b1 |-> b1, b2 |-> Shift(b1, w[1], w[2]) ] :
        a1 \in StartPoints, b1 \in StartPoints,
        v \in Steps \X Steps, w \in Steps \X Steps }

\* the landmark set of the end-to-end scenario
Scenario ==
    [ n \in PointNameSet |->
        CASE n = "hip_center"              -> Coord(100, 50)
          [] n = "femoral_condyles_center" -> Coord(100, 200)
          [] n = "medial_condyle"          -> Coord(90, 210)
          [] n = "lateral_condyle"         -> Coord(110, 210)
          [] n = "medial_tibial_plateau"   -> Coord(90, 220)
          [] n = "lateral_tibial_plateau"  -> Coord(110, 220)
          [] n = "tibia_center"            -> Coord(100, 300)
          [] n = "ankle_center"            -> Coord(100, 350) ]

\* the scenario and landmark sets around it
MeasureInputs ==
    { [ fn |-> "measure",
        pts |-> [ Scenario EXCEPT !["hip_center"] = hc,
                                  !["lateral_condyle"] = lc,
                                  !["lateral_tibial_plateau"] = ltp,
                                  !["tibia_center"] = tc,
                                  !["ankle_center"] = ac ] ] :
        hc  \in { Coord(100, 50), Coord(50, 50), <<200, 100, 2>>, Coord(100, 200) },
        lc  \in { Coord(110, 210), Coord(110, 220), Coord(90, 210) },
        ltp \in { Coord(110, 220), Coord(110, 210) },
        tc  \in { Coord(100, 300), Coord(100, 400) },
        ac  \in { Coord(100, 350), Coord(150, 350) } }

\* circles with a known center and some of the integer points on them:
\* center (5, 5) with radius 10, and center (1/2, 1/2) through the unit square
KnownCircles ==
    { [ center |-> Coord(5, 5),
        on |-> { Coord(15, 5), Coord(5, 15), Coord(-5, 5), Coord(5, -5),
                 Coord(11, 13), Coord(13, 11), Coord(-1, 13), Coord(-3, -1) } ],
      [ center |-> <<1, 1, 2>>,
        on |-> { Coord(0, 0), Coord(1, 0), Coord(0, 1), Coord(1, 1) } ] }

\* hip_points lists of 3 and more points, not all on one line, taken from
\* one circle
FitInputs ==
    UNION { { [ fn |-> "fit", center |-> c.center, pts |-> s ] :
                s \in { t \in UNION { [1..n -> c.on] : n \in 3..MaxFitPoints } :
                          ~Collinear(t) } } :
            c \in KnownCircles }

InitCalls ==
    /\ points = EmptyPoints
    /\ current_point = 0
    /\ hip_points = <<>>
    /\ flip_horizontal = FALSE
    /\ flip_vertical = FALSE
    /\ rotate_90 = FALSE
    /\ outcome = "form"
    /\ angles = None
    /\ event = "upload"
    /\ field_x = DefaultInput(ImageSize[1], ImageSize[2])[1]
    /\ field_y = DefaultInput(ImageSize[1], ImageSize[2])[2]
    /\ edits = 0
    /\ call \in TransformInputs \cup AngleInputs \cup MeasureInputs \cup FitInputs

InField(q, width, height) ==
    /\ q[1] \in 0..width
    /\ q[2] \in 0..height

\* A stored point inside the image is plotted (lines 72-78); the plotted point
\* is entered in the coordinate fields and saved (lines 97-103).
PlotThenSave ==
    /\ call.fn = "transform"
    /\ call.p[1] < call.size[1]
    /\ call.p[2] < call.size[2]
    /\ LET d       == DisplaySize(call.size, call.rot)
           plotted == ForwardTransform(Coord(call.p[1], call.p[2]), d[1], d[2],
                                       call.fh, call.fv, call.rot)
       IN  /\ InField(plotted, d[1], d[2])
           /\ call' = [ fn |-> "PlotThenSave", args |-> call, plotted |-> plotted,
                        stored |-> InverseTransform(plotted[1], plotted[2], d[1], d[2],
                                                    call.fh, call.fv, call.rot) ]
    /\ UNCHANGED session

\* A point is entered in the coordinate fields and saved (lines 97-103); the
\* next pass plots the stored point (lines 72-78).
SaveThenPlot ==
    /\ call.fn = "transform"
    /\ LET d      == DisplaySize(call.size, call.rot)
           stored == InverseTransform(call.p[1], call.p[2], d[1], d[2],
                                      call.fh, call.fv, call.rot)
       IN  /\ InField(call.p, d[1], d[2])
           /\ call' = [ fn |-> "SaveThenPlot", args |-> call, stored |-> stored,
                        plotted |-> ForwardTransform(stored, d[1], d[2],
                                                     call.fh, call.fv, call.rot) ]
    /\ UNCHANGED session

CallAngle ==
    /\ call.fn = "angle"
    /\ call' = [ fn |-> "angle_between_lines", args |-> call,
                 v1 |-> Minus(call.a2, call.a1), v2 |-> Minus(call.b2, call.b1),
                 raw |-> RawAngle(call.a1, call.a2, call.b1, call.b2),
                 ret |-> angle_between_lines(call.a1, call.a2, call.b1, call.b2) ]
    /\ UNCHANGED session

CallMeasure ==
    /\ call.fn = "measure"
    /\ call' = [ fn |-> "Measure", args |-> call, ret |-> Measure(call.pts) ]
    /\ UNCHANGED session

\* lines 126-130 on a given list of boundary points
CallCircleFit ==
    /\ call.fn = "fit"
    /\ call' = [ fn |-> "CircleFit", args |-> call, ret |-> CircleFit(call.pts) ]
    /\ UNCHANGED session

NextCalls ==
    PlotThenSave \/ SaveThenPlot \/ CallAngle \/ CallMeasure \/ CallCircleFit

SpecCalls == InitCalls /\ [][NextCalls]_vars

\* ========================================================================
\* Properties
\* ========================================================================
\* p lies within [0, width] x [0, height] of the uploaded image
InImage(p) ==
    /\ 0 <= p[1] /\ p[1] <= ImageSize[1] * p[3]
    /\ 0 <= p[2] /\ p[2] <= ImageSize[2] * p[3]

\* C1 (as claimed): a stored point that is plotted and saved again under the
\* same flags is stored unchanged, and an entered point that is saved and then
\* plotted under the same flags is plotted where it was entered.
C1_RoundTrip ==
    /\ call.fn = "PlotThenSave" => call.stored = Coord(call.args.p[1], call.args.p[2])
    /\ call.fn = "SaveThenPlot" => call.plotted = Coord(call.args.p[1], call.args.p[2])

\* C2 (as claimed): whenever all 8 landmarks are filled, the pass that follows
\* reaches the measurement and displays the four angles.
C2_TerminalMeasures ==
    AllMarked(points) => (outcome = "result" /\ angles # None)

\* C3 (as claimed): the scenario's landmark set measures HKA = 0, JLCA = 0,
\* LDFA = 90 and MPTA = 90 degrees.
C3_ScenarioAsClaimed ==
    (call.fn = "Measure" /\ call.args.pts = Scenario) =>
        call.ret = [ hka |-> 0, jlca |-> 0, ldfa |-> 90 * Deg, mpta |-> 90 * Deg ]

\* C3 (amended): the scenario's landmark set measures HKA = 180, JLCA = 0,
\* LDFA = 90 and MPTA = 90 degrees: hc->fc and ac->fc point in opposite
\* directions along the straight mechanical axis.
C3_Scenario ==
    (call.fn = "Measure" /\ call.args.pts = Scenario) =>
        call.ret = [ hka |-> 180 * Deg, jlca |-> 0, ldfa |-> 90 * Deg,
                     mpta |-> 90 * Deg ]

C3_Witness == call.fn = "Measure" /\ call.args.pts = Scenario

\* C4 (as claimed): every coordinate stored by Save and every point appended
\* by Add Hip Point lies within [0, width] x [0, height] of the image.
C4_StoredInImage ==
    /\ \A i \in 1..Len(hip_points) : InImage(hip_points[i])
    /\ \A n \in PointNameSet \ {"hip_center"} : points[n] # None => InImage(points[n])
    /\ (event = "Save" /\ current_point = 1) => InImage(points["hip_center"])

\* C5 (as claimed): Calculate Hip Center pressed on exactly collinear boundary
\* points stores no hip_center and does not advance current_point.
C5_CollinearRejected ==
    (event = "CalculateHipCenter" /\ Collinear(hip_points)) =>
        (points["hip_center"] = None /\ current_point = 0)

\* C6 (as claimed): in every state where hip_center is filled the stored
\* sequence of hip boundary points is empty or absent.
C6_DiscardedAsClaimed ==
    points["hip_center"] # None => hip_points = <<>>

\* C6 (amended): the hip boundary points are not discarded once hip_center is
\* derived: the step that fills hip_center and every later step leave the
\* stored sequence as it was, so after Calculate Hip Center it still holds the
\* (at least 3) points that were fitted.
C6_Retained ==
    /\ [](event = "CalculateHipCenter" =>
            (Len(hip_points) >= 3 /\ points["hip_center"] = CircleFit(hip_points)))
    /\ [][ points["hip_center"]' # None => hip_points' = hip_points ]_vars

C6_Witness ==
    /\ event = "CalculateHipCenter"
    /\ points["hip_center"] # None
    /\ Len(hip_points) >= 3

\* C7 (as claimed): Start New Measurement is available once a measurement is
\* complete (and then clears the landmarks and the boundary points and
\* returns to hip_center).
C7_ResetAvailable ==
    AllMarked(points) => ENABLED StartNewMeasurement

\* C8: the filled landmarks are exactly the first current_point names, and
\* current_point advances, by exactly one, only in a step that stores a
\* coordinate for the landmark that was current and empty.
C8_FixedOrder ==
    /\ [](\A i \in 1..Len(point_names) :
            points[point_names[i]] # None <=> i <= current_point)
    /\ [][ current_point' > current_point =>
             /\ current_point' = current_point + 1
             /\ points[current_name] = None
             /\ points'[current_name] # None
             /\ event' \in {"Save", "CalculateHipCenter"} ]_vars

C8_Witness ==
    /\ current_point = 3
    /\ event = "Save"
    /\ points["medial_condyle"] # None
    /\ points["lateral_condyle"] = None

\* C9: a step that changes flip_horizontal, flip_vertical or rotate_90 leaves
\* the stored landmarks, the hip boundary points and current_point unchanged.
C9_ViewOnly ==
    [][ <<flip_horizontal, flip_vertical, rotate_90>>' #
            <<flip_horizontal, flip_vertical, rotate_90>>
        => UNCHANGED <<points, hip_points, current_point>> ]_vars

C9_Witness ==
    /\ event = "Toggle"
    /\ flip_horizontal
    /\ points["hip_center"] # None /\ ~InImage(points["hip_center"])
    /\ hip_points # <<>>

\* C10: for non-zero direction vectors, with theta the raw difference of the
\* two direction angles, angle_between_lines returns
\* min(|theta| mod 360, 360 - |theta| mod 360), which lies in [0, 180].
C10_Folding ==
    (call.fn = "angle_between_lines" /\ call.v1 # <<0, 0>> /\ call.v2 # <<0, 0>>) =>
        LET t == Abs(call.raw) % (360 * Deg)
        IN  /\ call.ret = Min(t, 360 * Deg - t)
            /\ 0 <= call.ret /\ call.ret <= 180 * Deg

C10_Witness ==
    /\ call.fn = "angle_between_lines"
    /\ call.v1 # <<0, 0>> /\ call.v2 # <<0, 0>>
    /\ Abs(call.raw) > 180 * Deg

\* C11 (as claimed): a zero-length direction vector (a1 = a2 or b1 = b2) makes
\* angle_between_lines, and the measurement that uses it, yield an error or a
\* sentinel instead of an ordinary angle between 0 and 180 degrees.
C11_ZeroVectorHandled ==
    /\ (call.fn = "angle_between_lines" /\ (call.v1 = <<0, 0>> \/ call.v2 = <<0, 0>>))
          => call.ret \notin 0..(180 * Deg)
    /\ (call.fn = "Measure" /\
        call.args.pts["hip_center"] = call.args.pts["femoral_condyles_center"])
          => call.ret.hka \notin 0..(180 * Deg)

\* C12: in every pass where at least one landmark is still empty, no angle is
\* computed and the pass raises no error: it ends with the form rendered.
C12_NoMeasureWhileMissing ==
    ~AllMarked(points) => (angles = None /\ outcome = "form")

C12_Witness ==
    /\ current_point = 7
    /\ points["tibia_center"] # None
    /\ points["ankle_center"] = None
    /\ event = "Save"
    /\ outcome = "form"

\* C13: the circle fit is never run on fewer than 3 boundary points: with
\* fewer than 3 points Calculate Hip Center cannot be pressed, and a step in
\* which it fills hip_center starts from at least 3 collected points.
C13_FitNeedsThreePoints ==
    /\ [](Len(hip_points) < 3 => ~ENABLED CalculateHipCenter)
    /\ [][ (event' = "CalculateHipCenter" /\ points'["hip_center"] # points["hip_center"])
             => Len(hip_points) >= 3 ]_vars

C13_Witness ==
    /\ event = "CalculateHipCenter"
    /\ current_point = 1
    /\ Len(hip_points) = 3
    /\ points["hip_center"] = CircleFit(hip_points)

\* squared distance of the integer point p from the center c, times c[3]^2
Dist2(p, c) ==
    (p[1] * c[3] - c[1]) * (p[1] * c[3] - c[1]) +
    (p[2] * c[3] - c[2]) * (p[2] * c[3] - c[2])

OnCircleAround(pts, c) ==
    \A i \in 1..Len(pts) : Dist2(pts[i], c) = Dist2(pts[1], c)

\* C14: the circle fit on 3 or more non-collinear points that lie exactly on
\* a circle of known center returns that center.
C14_FitRecoversCenter ==
    (call.fn = "CircleFit" /\ Len(call.args.pts) >= 3 /\ ~Collinear(call.args.pts)
        /\ OnCircleAround(call.args.pts, call.args.center))
      => call.ret = call.args.center

C14_Witness ==
    /\ call.fn = "CircleFit"
    /\ call.args.center = Coord(5, 5)
    /\ call.args.pts = <<Coord(15, 5), Coord(11, 13), Coord(-1, 13), Coord(-3, -1)>>
    /\ call.ret = Coord(5, 5)

\* C15: once a landmark is filled, no later step changes its stored
\* coordinate; only Start New Measurement removes it.
C15_FilledIsFinal ==
    [][ \A n \in PointNameSet :
          points[n] # None =>
              (points'[n] = points[n] \/ event' = "StartNewMeasurement") ]_vars

C15_Witness ==
    /\ current_point = 8
    /\ points["hip_center"] = Coord(-1, 1)
    /\ points["ankle_center"] = Coord(1, 1)
    /\ Len(hip_points) = 2
    /\ event = "Toggle"
    /\ rotate_90

\* C16: Add Hip Point and Calculate Hip Center can be pressed, and occur,
\* only while hip_center is the current landmark (current_point = 0); between
\* two states in which it is not, the hip boundary points stay as they are.
C16_HipPhaseOnly ==
    /\ [](current_point # 0 => (~ENABLED AddHipPoint /\ ~ENABLED CalculateHipCenter))
    /\ [][ event' \in {"AddHipPoint", "CalculateHipCenter"} => current_point = 0 ]_vars
    /\ [][ (current_point # 0 /\ current_point' # 0) => hip_points' = hip_points ]_vars

C16_Witness ==
    /\ current_point = 2
    /\ Len(hip_points) = MaxHipPoints
    /\ event = "Save"
    /\ outcome = "form"

====
